---- MODULE Spec2Model ----
(***************************************************************************)
(* Model of maxdefense.hh: the armor filter, the greedy solver and the     *)
(* exhaustive solver of the max-defense (0/1 knapsack) problem.            *)
(*                                                                         *)
(* Costs, defense points and the gold budget are IEEE-754 doubles and the  *)
(* subset counter of the exhaustive solver is a uint64_t.  Both are kept   *)
(* at their width: a double is a sign, a 53-bit mantissa and an exponent,  *)
(* and every sum, quotient and conversion rounds to nearest, ties to even, *)
(* as the hardware does.  Numbers wider than 31 bits are sequences of      *)
(* 15-bit limbs, least significant first.  Exponent overflow and           *)
(* subnormals are out of the range of every quantity that occurs.          *)
(* Sequences are 1-based: armors[j + 1] is the source's armors[j].         *)
(***************************************************************************)
EXTENDS Integers, Sequences, FiniteSets, TLC

\* ------------------------------------------------------------------ bounds
MaxLen == 3
MaxCost == 2
MaxDefense == 2
MaxBudget == 5
Oversize == 1
LoopTail == 2

\* assert(n < 64) in exhaustive_max_defense
AssertLimit == 64

\* Bits in the mantissa of a double (DBL_MANT_DIG)
MantissaBits == 53

\* ------------------------------------------------------- wide naturals
RECURSIVE Pow2(_)
Pow2(n) == IF n = 0 THEN 1 ELSE 2 * Pow2(n - 1)

\* Powers of two up to the limb base, and the limb base 2^15
Pow2Tab == [k \in 0..15 |-> Pow2(k)]
Base == Pow2Tab[15]

Min(a, b) == IF a <= b THEN a ELSE b
Max(a, b) == IF a >= b THEN a ELSE b

RECURSIVE WTrim(_)
\* Drop the high zero limbs
WTrim(x) ==
  IF x = <<>> THEN x
  ELSE IF x[Len(x)] = 0 THEN WTrim(SubSeq(x, 1, Len(x) - 1)) ELSE x

RECURSIVE W(_)
\* The wide natural of a small natural
W(n) == IF n = 0 THEN <<>> ELSE <<n % Base>> \o W(n \div Base)

WLimb(x, i) == IF i >= 1 /\ i <= Len(x) THEN x[i] ELSE 0

RECURSIVE WAddFrom(_, _, _, _)
WAddFrom(x, y, i, carry) ==
  IF i > Len(x) /\ i > Len(y)
  THEN (IF carry = 0 THEN <<>> ELSE <<carry>>)
  ELSE LET t == WLimb(x, i) + WLimb(y, i) + carry
       IN <<t % Base>> \o WAddFrom(x, y, i + 1, t \div Base)

\* x + y
WAdd(x, y) == WAddFrom(x, y, 1, 0)

RECURSIVE WSubFrom(_, _, _, _)
WSubFrom(x, y, i, borrow) ==
  IF i > Len(x) THEN <<>>
  ELSE LET t == x[i] - WLimb(y, i) - borrow
       IN IF t < 0 THEN <<t + Base>> \o WSubFrom(x, y, i + 1, 1)
          ELSE <<t>> \o WSubFrom(x, y, i + 1, 0)

\* x - y, for x >= y
WSub(x, y) == WTrim(WSubFrom(x, y, 1, 0))

\* -1, 0 or 1 as x is below, equal to or above y
WCmp(x, y) ==
  IF Len(x) # Len(y) THEN (IF Len(x) < Len(y) THEN -1 ELSE 1)
  ELSE LET D == {i \in 1..Len(x) : x[i] # y[i]}
       IN IF D = {} THEN 0
          ELSE LET i == CHOOSE k \in D : \A l \in D : l <= k
               IN IF x[i] < y[i] THEN -1 ELSE 1

\* Number of bits of x
WBitLen(x) ==
  IF x = <<>> THEN 0
  ELSE LET top == x[Len(x)]
           b == CHOOSE k \in 1..15 : Pow2Tab[k - 1] <= top /\ top < Pow2Tab[k]
       IN 15 * (Len(x) - 1) + b

\* Bit j of x, j counted from 0
WBit(x, j) == (WLimb(x, (j \div 15) + 1) \div Pow2Tab[j % 15]) % 2

\* x * 2^s
WShl(x, s) ==
  IF x = <<>> THEN x
  ELSE LET p == Pow2Tab[s % 15]
           moved == [i \in 1..(Len(x) + 1) |->
                       (IF i <= Len(x) THEN (x[i] * p) % Base ELSE 0)
                       + (IF i > 1 THEN (x[i - 1] * p) \div Base ELSE 0)]
       IN [i \in 1..(s \div 15) |-> 0] \o WTrim(moved)

\* x \div 2^s
WShr(x, s) ==
  LET q == s \div 15
      r == s % 15
      p == Pow2Tab[r]
      up == Pow2Tab[15 - r]
  IN IF q >= Len(x) THEN <<>>
     ELSE LET y == SubSeq(x, q + 1, Len(x))
          IN WTrim([i \in 1..Len(y) |->
                      (y[i] \div p) + (WLimb(y, i + 1) % p) * up])

\* x is a multiple of 2^s
WLowZero(x, s) ==
  /\ \A i \in 1..Min(s \div 15, Len(x)) : x[i] = 0
  /\ WLimb(x, (s \div 15) + 1) % Pow2Tab[s % 15] = 0

\* x is odd
WOdd(x) == x # <<>> /\ x[1] % 2 = 1

\* Two limbs as one number below 2^30, and back
Pair(x, i) == WLimb(x, i) + Base * WLimb(x, i + 1)
Unpair(n) == <<n % Base, n \div Base>>

RECURSIVE WDivBits(_, _, _, _, _, _)
\* k <= 30 more quotient bits of a long division by yh * 2^30 + yl: q holds
\* the bits so far, the remainder so far is rh * 2^30 + rl
WDivBits(q, rh, rl, yh, yl, k) ==
  IF k = 0 THEN [q |-> q, rh |-> rh, rl |-> rl]
  ELSE LET h == Base * Base
           rl2 == (2 * rl) % h
           rh2 == 2 * rh + (2 * rl) \div h
           borrow == IF rl2 < yl THEN 1 ELSE 0
       IN IF rh2 > yh \/ (rh2 = yh /\ rl2 >= yl)
          THEN WDivBits(2 * q + 1, rh2 - yh - borrow,
                        rl2 - yl + borrow * h, yh, yl, k - 1)
          ELSE WDivBits(2 * q, rh2, rl2, yh, yl, k - 1)

\* ---------------------------------------------------------------- double
\* A double is [neg, m, e] and stands for (-1)^neg * m * 2^e; m has exactly
\* MantissaBits bits, but for 0.0, which is [FALSE, <<>>, 0].
Zero == [neg |-> FALSE, m |-> <<>>, e |-> 0]

\* The double nearest to (-1)^neg * n * 2^e, ties to even
DRound(neg, n, e) ==
  LET len == WBitLen(n)
      s == len - MantissaBits
  IN IF len = 0 THEN Zero
     ELSE IF s <= 0 THEN [neg |-> neg, m |-> WShl(n, -s), e |-> e + s]
     ELSE LET q == WShr(n, s)
              up == WBit(n, s - 1) = 1 /\ (~WLowZero(n, s - 1) \/ WOdd(q))
              q1 == IF up THEN WAdd(q, <<1>>) ELSE q
          IN IF WBitLen(q1) > MantissaBits
             THEN [neg |-> neg, m |-> WShr(q1, 1), e |-> e + s + 1]
             ELSE [neg |-> neg, m |-> q1, e |-> e + s]

\* Conversion of an int to double
DInt(i) == IF i < 0 THEN DRound(TRUE, W(-i), 0) ELSE DRound(FALSE, W(i), 0)

\* Conversion of a uint64_t (a wide natural) to double
DWide(x) == DRound(FALSE, x, 0)

\* -1, 0 or 1 as |a| is below, equal to or above |b|
DCmpAbs(a, b) ==
  IF a.m = <<>> \/ b.m = <<>>
  THEN (IF a.m = b.m THEN 0 ELSE IF a.m = <<>> THEN -1 ELSE 1)
  ELSE IF a.e # b.e THEN (IF a.e < b.e THEN -1 ELSE 1)
  ELSE WCmp(a.m, b.m)

\* -1, 0 or 1 as a is below, equal to or above b
DCmp(a, b) ==
  IF a.neg # b.neg THEN (IF a.m = <<>> /\ b.m = <<>> THEN 0
                         ELSE IF a.neg THEN -1 ELSE 1)
  ELSE IF a.neg THEN -DCmpAbs(a, b) ELSE DCmpAbs(a, b)

DLess(a, b) == DCmp(a, b) < 0
DLessEq(a, b) == DCmp(a, b) <= 0

\* a + b, rounded
DAdd(a, b) ==
  IF a.m = <<>> THEN b
  ELSE IF b.m = <<>> THEN a
  ELSE LET e == Min(a.e, b.e)
           x == WShl(a.m, a.e - e)
           y == WShl(b.m, b.e - e)
       IN IF a.neg = b.neg THEN DRound(a.neg, WAdd(x, y), e)
          ELSE IF WCmp(x, y) >= 0 THEN DRound(a.neg, WSub(x, y), e)
          ELSE DRound(b.neg, WSub(y, x), e)

\* a / b, rounded, for b # 0: the integer quotient of the mantissas to
\* MantissaBits + 3 bits (1 + 25 + 30), the last bit set if the division is
\* inexact
DDiv(a, b) ==
  IF a.m = <<>> THEN Zero
  ELSE LET above == WCmp(a.m, b.m) >= 0
           rem == IF above THEN WSub(a.m, b.m) ELSE a.m
           yh == Pair(b.m, 3)
           yl == Pair(b.m, 1)
           high == WDivBits(IF above THEN 1 ELSE 0, Pair(rem, 3), Pair(rem, 1),
                            yh, yl, MantissaBits - 28)
           low == WDivBits(0, high.rh, high.rl, yh, yl, 30)
           sticky == IF low.rh = 0 /\ low.rl = 0 THEN 0 ELSE 1
           q == WTrim(Unpair(low.q) \o Unpair(high.q))
       IN DRound(a.neg # b.neg, WAdd(WShl(q, 1), W(sticky)),
                 a.e - b.e - (MantissaBits + 3))

\* pow(2, n) for an int n >= 0: exact
DPow2(n) == [neg |-> FALSE, m |-> WShl(<<1>>, MantissaBits - 1),
             e |-> n - (MantissaBits - 1)]

\* ------------------------------------------------------------------- data
\* Gold amounts of the inputs: the doubles nearest to k/11.  Among them
\* are amounts whose sum is rounded, and rounded differently in a different
\* order: (2/11 + 2/11) + 1/11 > 5/11 = (2/11 + 1/11) + 2/11.
Elevenths(k) == DDiv(DInt(k), DInt(11))

Costs == {Elevenths(k) : k \in 1..MaxCost}
Defenses == {DInt(d) : d \in 0..MaxDefense}
Budgets == {Elevenths(b) : b \in -1..MaxBudget}

\* class ArmorItem: cost_gold > 0 is asserted, defense_points is meant to be
\* non-negative.  The description plays no part in any computation.
ArmorItem == [cost : Costs, defense : Defenses]

\* ArmorVector: sequences of armor items of length at most n
ArmorVector(n) == UNION {[1..k -> ArmorItem] : k \in 0..n}

\* An ArmorVector of n copies of one item
Repeat(armor, n) == [k \in 1..n |-> armor]

\* ------------------------------------------------------- sum_armor_vector
\* TRUE for every x.  Operator arguments are evaluated when first read;
\* reading the running totals at each turn keeps a long sum a chain of
\* additions done one after the other, as the += of the source are.
Evaluated(x) == x = x

RECURSIVE SumFrom(_, _, _, _)
\* The range-for of sum_armor_vector, from index i on, with the running totals
SumFrom(armors, i, total_cost, total_defense) ==
  IF i <= Len(armors) /\ Evaluated(total_cost) /\ Evaluated(total_defense)
  THEN SumFrom(armors, i + 1,
               DAdd(total_cost, armors[i].cost),
               DAdd(total_defense, armors[i].defense))
  ELSE [total_cost |-> total_cost, total_defense |-> total_defense]

sum_armor_vector(armors) == SumFrom(armors, 1, Zero, Zero)

\* ---------------------------------------------------- filter_armor_vector
\* FilterMatch with the lower end of the range excluded
FilterMatchStrictLow(armor, min_defense, max_defense) ==
  DLess(min_defense, armor.defense) /\ DLessEq(armor.defense, max_defense)

\* armor->defense() >= min_defense && armor->defense() <= max_defense
FilterMatch(armor, min_defense, max_defense) ==
  DLessEq(min_defense, armor.defense) /\ DLessEq(armor.defense, max_defense)

\* filtered->size() >= total_size: total_size is an int and size() a size_t,
\* so total_size is converted to size_t.  A negative total_size becomes
\* 2^64 + total_size, which no vector size reaches.
SizeReached(size, total_size) ==
  IF total_size < 0 THEN FALSE ELSE size >= total_size

RECURSIVE FilterFrom(_, _, _, _, _, _)
\* The range-for of filter_armor_vector from index i on; the break ends it
FilterFrom(source, i, filtered, min_defense, max_defense, total_size) ==
  IF i > Len(source) THEN filtered
  ELSE IF FilterMatch(source[i], min_defense, max_defense)
       THEN LET pushed == Append(filtered, source[i])
            IN IF SizeReached(Len(pushed), total_size)
               THEN pushed
               ELSE FilterFrom(source, i + 1, pushed,
                               min_defense, max_defense, total_size)
       ELSE FilterFrom(source, i + 1, filtered,
                       min_defense, max_defense, total_size)

filter_armor_vector(source, min_defense, max_defense, total_size) ==
  FilterFrom(source, 1, <<>>, min_defense, max_defense, total_size)

\* ----------------------------------------------------- greedy_max_defense
\* armor->defense() / armor->cost()
ArmorValue(armor) == DDiv(armor.defense, armor.cost)

\* double max_armor_value = 0.0
ZeroValue == Zero

\* Fits with the budget itself excluded
FitsStrict(armor, result_cost, total_cost) ==
  DLess(DAdd(result_cost, armor.cost), total_cost)

\* Fits with the gold already spent forgotten
FitsAlone(armor, result_cost, total_cost) ==
  DLessEq(armor.cost, total_cost)

\* (result_cost + armor->cost()) <= total_cost
Fits(armor, result_cost, total_cost) ==
  DLessEq(DAdd(result_cost, armor.cost), total_cost)

\* Better with ties accepted
BetterOrEqual(armor_value, max_armor_value) ==
  DLessEq(max_armor_value, armor_value)

\* armor_value > max_armor_value
Better(armor_value, max_armor_value) ==
  DLess(max_armor_value, armor_value)

RECURSIVE GreedyScanFrom(_, _, _, _, _, _)
\* The inner for of greedy_max_defense from index i on.  max_armor_index is
\* -1 (the source's size_t(-1)) as long as no armor has been taken.
GreedyScanFrom(todo, i, result_cost, total_cost, max_armor_index, max_armor_value) ==
  IF i > Len(todo)
  THEN [max_armor_index |-> max_armor_index,
        max_armor_value |-> max_armor_value]
  ELSE IF Fits(todo[i], result_cost, total_cost)
          /\ Better(ArmorValue(todo[i]), max_armor_value)
       THEN GreedyScanFrom(todo, i + 1, result_cost, total_cost,
                           i, ArmorValue(todo[i]))
       ELSE GreedyScanFrom(todo, i + 1, result_cost, total_cost,
                           max_armor_index, max_armor_value)

\* One pass of the inner for, started as the while body starts it
GreedyScan(todo, result_cost, total_cost) ==
  GreedyScanFrom(todo, 1, result_cost, total_cost, -1, ZeroValue)

\* todo->erase(todo->begin() + max_armor_index)
Erase(todo, i) == SubSeq(todo, 1, i - 1) \o SubSeq(todo, i + 1, Len(todo))

RECURSIVE GreedyLoop(_, _, _, _)
\* The while loop of greedy_max_defense, on the solver's locals
GreedyLoop(todo, result, result_cost, total_cost) ==
  LET idx == GreedyScan(todo, result_cost, total_cost).max_armor_index
  IN IF Len(todo) = 0 \/ idx = -1
     THEN [todo |-> todo, result |-> result, result_cost |-> result_cost]
     ELSE GreedyLoop(Erase(todo, idx), Append(result, todo[idx]),
                     DAdd(result_cost, todo[idx].cost), total_cost)

greedy_max_defense(armors, total_cost) ==
  GreedyLoop(armors, <<>>, Zero, total_cost).result

\* ------------------------------------------------- exhaustive_max_defense
\* PreconditionHolds with the limit itself let through
PreconditionHoldsInclusive(n) == n <= AssertLimit

\* assert(n < 64)
PreconditionHolds(n) == n < AssertLimit

\* ((bits >> j) & 1) == 1, j counted from 0; bits is a uint64_t
BitSet(bits, j) == WBit(bits, j) = 1

RECURSIVE CandidatesFrom(_, _, _)
\* The inner for of exhaustive_max_defense from the 0-based index j on
CandidatesFrom(armors, bits, j) ==
  IF j >= Len(armors) THEN <<>>
  ELSE (IF BitSet(bits, j) THEN <<armors[j + 1]>> ELSE <<>>)
       \o CandidatesFrom(armors, bits, j + 1)

\* candidates after the inner for: the armors whose bit is set, in order
Candidates(armors, bits) == CandidatesFrom(armors, bits, 0)

\* bits < pow(2,n): bits is a uint64_t and pow returns a double, so bits is
\* converted to double, rounding to nearest, before the comparison
KeepsGoing(bits, n) == DLess(DWide(bits), DPow2(n))

\* bits++ (bits stays below 2^63, so the uint64_t never wraps)
Increment(bits) == WAdd(bits, <<1>>)

\* !flag || defense > best_defense
Improves(flag, defense, best_defense) ==
  ~flag \/ DLess(best_defense, defense)

\* The body of the outer for of exhaustive_max_defense for one value of
\* bits, on the solver's locals st = [bestVector, best_defense, flag]
ExhaustiveBody(st, armors, total_cost, bits) ==
  LET candidates == Candidates(armors, bits)
      sum == sum_armor_vector(candidates)
  IN IF DLessEq(sum.total_cost, total_cost)
        /\ Improves(st.flag, sum.total_defense, st.best_defense)
     THEN [bestVector |-> candidates,
           best_defense |-> sum.total_defense,
           flag |-> TRUE]
     ELSE st

\* The locals of exhaustive_max_defense before the outer for
ExhaustiveStart == [bestVector |-> <<>>, best_defense |-> Zero, flag |-> FALSE]

RECURSIVE ExhaustiveLoop(_, _, _, _)
\* The outer for of exhaustive_max_defense from bits on
ExhaustiveLoop(st, armors, total_cost, bits) ==
  IF KeepsGoing(bits, Len(armors))
  THEN ExhaustiveLoop(ExhaustiveBody(st, armors, total_cost, bits),
                      armors, total_cost, Increment(bits))
  ELSE st

\* The vector exhaustive_max_defense returns when its assertion passes
exhaustive_max_defense(armors, total_cost) ==
  ExhaustiveLoop(ExhaustiveStart, armors, total_cost, <<>>).bestVector

\* ------------------------------------------------------------------ state
VARIABLES
  pc,            \* where the program is
  armors,        \* the ArmorVector given to the filter or to the solvers
  total_cost,    \* the gold budget given to the solvers
  min_defense,   \* filter_armor_vector: arguments and returned vector
  max_defense,
  total_size,
  filtered,
  todo,          \* greedy_max_defense: locals; result is what it returns
  result,
  result_cost,
  bits,          \* exhaustive_max_defense: locals; bestVector is returned
  bestVector,
  best_defense,
  flag

vars == <<pc, armors, total_cost, min_defense, max_defense, total_size,
          filtered, todo, result, result_cost,
          bits, bestVector, best_defense, flag>>

filterVars == <<min_defense, max_defense, total_size, filtered>>
greedyVars == <<todo, result, result_cost>>
exhaustiveVars == <<bits, bestVector, best_defense, flag>>

\* The solvers' locals as they are constructed
SolversFresh ==
  /\ todo = armors
  /\ result = <<>>
  /\ result_cost = Zero
  /\ bits = <<>>
  /\ bestVector = ExhaustiveStart.bestVector
  /\ best_defense = ExhaustiveStart.best_defense
  /\ flag = ExhaustiveStart.flag

\* No filter call is part of the solvers program
FilterUnused ==
  /\ min_defense = Zero
  /\ max_defense = Zero
  /\ total_size = 0
  /\ filtered = <<>>

\* ----------------------------------------------------- the filter program
\* Any source, any range and any total_size, 0 and negative ones included
InitFilter ==
  /\ pc = "filter"
  /\ armors \in UNION {[1..k -> {a \in ArmorItem : a.cost = Elevenths(1)}] :
                         k \in 0..MaxLen}
  /\ min_defense \in Defenses
  /\ max_defense \in Defenses
  /\ total_size \in -1..(MaxLen + 1)
  /\ filtered = <<>>
  /\ total_cost = Zero
  /\ SolversFresh

\* A call filter_armor_vector(armors, min_defense, max_defense, total_size)
Filter ==
  /\ pc = "filter"
  /\ filtered' = filter_armor_vector(armors, min_defense, max_defense, total_size)
  /\ pc' = "filtered"
  /\ UNCHANGED <<armors, total_cost, min_defense, max_defense, total_size,
                 greedyVars, exhaustiveVars>>

NextFilter == Filter

SpecFilter == InitFilter /\ [][NextFilter]_vars

\* ---------------------------------------------------- the solvers program
\* On the short vectors both solvers are run on the same (armors,
\* total_cost), the greedy one first.  Vectors of AssertLimit and more copies
\* of one item are given to exhaustive_max_defense alone, the call that main
\* makes, for its assertion.
Init ==
  /\ \/ /\ pc = "greedy"
        /\ armors \in ArmorVector(MaxLen)
     \/ /\ pc = "main"
        /\ \E a \in ArmorItem, n \in AssertLimit..(AssertLimit + Oversize) :
             armors = Repeat(a, n)
  /\ total_cost \in Budgets
  /\ FilterUnused
  /\ SolversFresh

\* One turn of the while loop of greedy_max_defense that takes an armor
GreedyRound ==
  /\ pc = "greedy"
  /\ Len(todo) # 0
  /\ LET scan == GreedyScan(todo, result_cost, total_cost)
         idx == scan.max_armor_index
     IN /\ idx # -1
        /\ result' = Append(result, todo[idx])
        /\ result_cost' = DAdd(result_cost, todo[idx].cost)
        /\ todo' = Erase(todo, idx)
  /\ UNCHANGED <<pc, armors, total_cost, filterVars, exhaustiveVars>>

\* greedy_max_defense returns: todo is empty, or the scan took no armor
GreedyReturn ==
  /\ pc = "greedy"
  /\ \/ Len(todo) = 0
     \/ GreedyScan(todo, result_cost, total_cost).max_armor_index = -1
  /\ pc' = "exhaustive"
  /\ UNCHANGED <<armors, total_cost, filterVars, greedyVars, exhaustiveVars>>

\* exhaustive_max_defense is entered and its assertion passes
ExhaustiveEnter ==
  /\ pc \in {"exhaustive", "main"}
  /\ PreconditionHolds(Len(armors))
  /\ pc' = "enumerate"
  /\ UNCHANGED <<armors, total_cost, filterVars, greedyVars, exhaustiveVars>>

\* exhaustive_max_defense is entered and its assertion fails: abort()
ExhaustiveAbort ==
  /\ pc \in {"exhaustive", "main"}
  /\ ~PreconditionHolds(Len(armors))
  /\ pc' = "aborted"
  /\ UNCHANGED <<armors, total_cost, filterVars, greedyVars, exhaustiveVars>>

\* One turn of the outer for of exhaustive_max_defense
ExhaustiveStep ==
  /\ pc = "enumerate"
  /\ KeepsGoing(bits, Len(armors))
  /\ LET st == ExhaustiveBody([bestVector |-> bestVector,
                               best_defense |-> best_defense,
                               flag |-> flag],
                              armors, total_cost, bits)
     IN /\ bestVector' = st.bestVector
        /\ best_defense' = st.best_defense
        /\ flag' = st.flag
  /\ bits' = Increment(bits)
  /\ UNCHANGED <<pc, armors, total_cost, filterVars, greedyVars>>

\* The outer for ends and exhaustive_max_defense returns bestVector
ExhaustiveReturn ==
  /\ pc = "enumerate"
  /\ ~KeepsGoing(bits, Len(armors))
  /\ pc' = "done"
  /\ UNCHANGED <<armors, total_cost, filterVars, greedyVars, exhaustiveVars>>

Next ==
  \/ GreedyRound
  \/ GreedyReturn
  \/ ExhaustiveEnter
  \/ ExhaustiveAbort
  \/ ExhaustiveStep
  \/ ExhaustiveReturn

Spec == Init /\ [][Next]_vars

\* The step-wise solvers agree with the solvers as functions, on the short
\* vectors
StepwiseAgrees ==
  /\ (pc \in {"exhaustive", "enumerate", "done"} /\ Len(armors) <= MaxLen)
       => result = greedy_max_defense(armors, total_cost)
  /\ (pc = "done" /\ Len(armors) <= MaxLen)
       => bestVector = exhaustive_max_defense(armors, total_cost)

\* ------------------------------------- the solvers program, long vectors
\* A vector of MantissaBits + 1 items takes 2^54 turns of the outer for.
\* Here the program is joined LoopTail turns before bits reaches 2^n, in the
\* state it has then.  The vector is n copies of one item of positive
\* defense and the budget is what they cost together.  The greedy solver
\* has returned: every item fits in its turn and the first of the pool is
\* taken, so it has taken them all.  In the exhaustive solver every subset
\* is feasible and is worth more the more items it has: after the masks
\* below bits, bestVector holds as many items as the most ones any of those
\* masks has.

\* The locals of greedy_max_defense at its return, for a vector v of
\* copies of one item of positive defense all of which the budget pays
UniformGreedy(v) ==
  [todo |-> <<>>, result |-> v,
   result_cost |-> sum_armor_vector(v).total_cost]

\* The most ones a mask below next has, for next >= 1
MostOnes(next) ==
  LET len == WBitLen(WSub(next, <<1>>))
  IN IF next = WShl(<<1>>, len) THEN len ELSE len - 1

\* The locals of exhaustive_max_defense after the masks below next, for a
\* vector of copies of armor all of which the budget pays
UniformLocals(armor, next) ==
  LET best == Repeat(armor, MostOnes(next))
  IN [bestVector |-> best,
      best_defense |-> sum_armor_vector(best).total_defense,
      flag |-> TRUE]

\* armors is a vector of copies of one item of positive defense and
\* total_cost pays for all of them
UniformAndPaid ==
  /\ Len(armors) >= 1
  /\ \A i \in 1..Len(armors) : armors[i] = armors[1]
  /\ DLess(Zero, armors[1].defense)
  /\ DLessEq(sum_armor_vector(armors).total_cost, total_cost)

\* In the step-wise program on the short vectors the locals are the ones
\* UniformGreedy and UniformLocals give
UniformLocalsAgree ==
  (UniformAndPaid /\ Len(armors) <= MaxLen) =>
    /\ pc \in {"exhaustive", "enumerate", "done"} =>
         [todo |-> todo, result |-> result, result_cost |-> result_cost]
           = UniformGreedy(armors)
    /\ (pc \in {"enumerate", "done"} /\ bits # <<>>) =>
         [bestVector |-> bestVector, best_defense |-> best_defense,
          flag |-> flag] = UniformLocals(armors[1], bits)

InitLong ==
  /\ pc = "enumerate"
  /\ \E a \in ArmorItem :
       /\ DLess(Zero, a.defense)
       /\ armors = Repeat(a, MantissaBits + 1)
  /\ total_cost = sum_armor_vector(armors).total_cost
  /\ FilterUnused
  /\ LET g == UniformGreedy(armors)
     IN /\ todo = g.todo
        /\ result = g.result
        /\ result_cost = g.result_cost
  /\ bits = WSub(WShl(<<1>>, Len(armors)), W(LoopTail))
  /\ LET st == UniformLocals(armors[1], bits)
     IN /\ bestVector = st.bestVector
        /\ best_defense = st.best_defense
        /\ flag = st.flag

SpecLong == (Init \/ InitLong) /\ [][Next]_vars

\* ------------------------------------------------------------ properties
\* Aggregate cost and defense of a vector, as sum_armor_vector adds them
TotalCost(v) == sum_armor_vector(v).total_cost
TotalDefense(v) == sum_armor_vector(v).total_defense

RECURSIVE SubVector(_, _, _)
\* The items of v at the indices S that are >= i, in increasing index
SubVector(v, S, i) ==
  IF i > Len(v) THEN <<>>
  ELSE (IF i \in S THEN <<v[i]>> ELSE <<>>) \o SubVector(v, S, i + 1)

\* Aggregate cost and defense of the items of v at the indices S
IndexCost(v, S) == TotalCost(SubVector(v, S, 1))
IndexDefense(v, S) == TotalDefense(SubVector(v, S, 1))

RECURSIVE MaskOf(_)
\* The mask naming the index set S: bit i - 1 for the 1-based index i
MaskOf(S) ==
  IF S = {} THEN 0
  ELSE LET i == CHOOSE x \in S : TRUE IN Pow2(i - 1) + MaskOf(S \ {i})

\* The subsets of the items of v (as index sets) of aggregate cost <= budget
FeasibleSets(v, budget) ==
  {S \in SUBSET (1..Len(v)) : DLessEq(IndexCost(v, S), budget)}

\* Among the feasible subsets, the one of greatest defense with the
\* smallest mask
FirstBest(v, budget) ==
  CHOOSE S \in FeasibleSets(v, budget) :
    \A T \in FeasibleSets(v, budget) :
      \/ DLess(IndexDefense(v, T), IndexDefense(v, S))
      \/ /\ DCmp(IndexDefense(v, T), IndexDefense(v, S)) = 0
         /\ MaskOf(S) <= MaskOf(T)

\* a is at least as efficient (defense per gold) as b
AsEfficient(a, b) == DLessEq(ArmorValue(b), ArmorValue(a))

\* armor fits what is left of the budget once result_cost is spent
FitsLeft(armor) == DLessEq(DAdd(result_cost, armor.cost), total_cost)

\* greedy_max_defense has returned; exhaustive_max_defense has returned
GreedyReturned == pc \in {"exhaustive", "enumerate", "done"}
ExhaustiveReturned == pc = "done"

\* C1, as stated: for every budget, a negative one included, the solution
\* each solver returns has aggregate cost <= budget.
C1_AsStated ==
  /\ GreedyReturned => DLessEq(TotalCost(result), total_cost)
  /\ ExhaustiveReturned => DLessEq(TotalCost(bestVector), total_cost)

\* C1, amended: for every budget >= 0 the solution each solver returns has
\* aggregate cost <= budget.
C1_Feasible ==
  DLessEq(Zero, total_cost) =>
    /\ GreedyReturned => DLessEq(TotalCost(result), total_cost)
    /\ ExhaustiveReturned => DLessEq(TotalCost(bestVector), total_cost)

C1_Witness ==
  /\ ExhaustiveReturned
  /\ DLess(Zero, total_cost)
  /\ DLess(total_cost, TotalCost(armors))
  /\ Len(result) >= 2
  /\ TotalCost(result) = total_cost
  /\ TotalCost(bestVector) = total_cost

\* C2: with fewer than 64 items, the defense of the vector the exhaustive
\* solver returns is >= the defense of every feasible subset of the items.
\* The subset of all the items, named by the last mask, is looked at first.
C2_Optimal ==
  (ExhaustiveReturned /\ Len(armors) < 64) =>
    /\ DLessEq(TotalCost(armors), total_cost)
         => DLessEq(TotalDefense(armors), TotalDefense(bestVector))
    /\ \A S \in FeasibleSets(armors, total_cost) :
         DLessEq(IndexDefense(armors, S), TotalDefense(bestVector))

\* C3: on the same (armors, total_cost) the defense of the exhaustive
\* solver's vector is >= the defense of the greedy solver's vector.
C3_Dominates ==
  ExhaustiveReturned =>
    DLessEq(TotalDefense(result), TotalDefense(bestVector))

\* C6, as stated: a single item of cost C and any defense V >= 0, with
\* budget C: both solvers return the vector holding just that item.
C6_AsStated ==
  (ExhaustiveReturned /\ Len(armors) = 1 /\ total_cost = armors[1].cost)
    => result = armors /\ bestVector = armors

\* C6, amended: a single item of cost C and defense V > 0, with budget C:
\* both solvers return the vector holding just that item.
C6_Single ==
  (/\ ExhaustiveReturned
   /\ Len(armors) = 1
   /\ total_cost = armors[1].cost
   /\ DLess(Zero, armors[1].defense))
    => result = armors /\ bestVector = armors

C6_Witness ==
  /\ ExhaustiveReturned
  /\ Len(armors) = 1
  /\ total_cost = armors[1].cost
  /\ DLess(Zero, armors[1].defense)
  /\ result = <<armors[1]>>
  /\ bestVector = <<armors[1]>>

\* C7: when the greedy solver has returned, no item left in its pool fits
\* the residual budget.
C7_NothingFits ==
  GreedyReturned => \A i \in 1..Len(todo) : ~FitsLeft(todo[i])

\* C8: with 64 or more items the exhaustive solver aborts before looking at
\* any subset and never returns; with fewer than 64 it never aborts, and it
\* goes on to enumerate.
C8_Precondition ==
  /\ Len(armors) >= 64 =>
       /\ pc \notin {"enumerate", "done"}
       /\ bits = <<>> /\ ~flag /\ bestVector = <<>>
  /\ Len(armors) < 64 => pc # "aborted"

C8_Witness ==
  /\ pc = "aborted"
  /\ Len(armors) = 64

\* C9: a round of the greedy solver that takes an item takes a pool item
\* that fits, whose efficiency no fitting pool item exceeds, and which is at
\* the lowest index among the fitting items of that efficiency.
C9_RoundTakesFirstBest ==
  [][ (pc = "greedy" /\ result' # result) =>
        \E i \in 1..Len(todo) :
          /\ FitsLeft(todo[i])
          /\ \A k \in 1..Len(todo) :
               FitsLeft(todo[k]) =>
                 /\ AsEfficient(todo[i], todo[k])
                 /\ (k < i => ~AsEfficient(todo[k], todo[i]))
          /\ result' = Append(result, todo[i])
          /\ result_cost' = DAdd(result_cost, todo[i].cost)
          /\ todo' = [k \in 1..(Len(todo) - 1) |->
                        IF k < i THEN todo[k] ELSE todo[k + 1]]
    ]_vars

C9_Witness ==
  /\ pc = "greedy"
  /\ Len(armors) >= 2
  /\ DLessEq(armors[1].cost, total_cost)
  /\ DLessEq(armors[2].cost, total_cost)
  /\ armors[1] # armors[2]
  /\ AsEfficient(armors[1], armors[2])
  /\ AsEfficient(armors[2], armors[1])
  /\ DLess(Zero, armors[1].defense)
  /\ \A k \in 1..Len(armors) : AsEfficient(armors[1], armors[k])
  /\ result = <<armors[1]>>
  /\ todo = Tail(armors)

\* C10: for a budget >= 0, the vector the exhaustive solver returns is the
\* subset named by the smallest mask in [0, 2^n) among the feasible masks of
\* greatest defense, its items in increasing index.  When the budget pays
\* for all the items and each has a positive defense, that mask is the last
\* one, 2^n - 1, and the subset is the whole vector: this case is looked at
\* first.
C10_FirstBestMask ==
  (ExhaustiveReturned /\ DLessEq(Zero, total_cost)) =>
    /\ (/\ DLessEq(TotalCost(armors), total_cost)
        /\ \A i \in 1..Len(armors) : DLess(Zero, armors[i].defense))
         => bestVector = armors
    /\ bestVector = SubVector(armors, FirstBest(armors, total_cost), 1)

\* ---- the filter
\* The items of the source with min_defense <= defense <= max_defense
Matching ==
  LET InRange(a) == DLessEq(min_defense, a.defense) /\ DLessEq(a.defense, max_defense)
  IN SelectSeq(armors, InRange)

\* C4: filter_armor_vector returns an empty vector whenever total_size <= 0.
C4_EmptyOnNoLimit ==
  (pc = "filtered" /\ total_size <= 0) => filtered = <<>>

\* C5: for total_size >= 1 filter_armor_vector returns the first
\* min(total_size, k) of the k items of the source whose defense is in
\* [min_defense, max_defense], in source order, duplicates kept.
C5_FirstMatching ==
  (pc = "filtered" /\ total_size >= 1) =>
    filtered = SubSeq(Matching, 1, Min(total_size, Len(Matching)))

C5_Witness ==
  /\ pc = "filtered"
  /\ total_size >= 1
  /\ min_defense = max_defense
  /\ Len(Matching) > total_size
  /\ armors[1].defense # min_defense
  /\ Len(filtered) = total_size
  /\ \A i \in 1..Len(filtered) : filtered[i].defense = min_defense

====
